---- MODULE Spec2Model ----
(***************************************************************************)
(* Model of src/main.py: the HTTP-triggered ETL run `main(request)` that   *)
(* fetches the DiscoveryCollections document, stores it as a JSON blob,    *)
(* flattens it into rows, stores the rows as a CSV blob and reloads the    *)
(* BigQuery table.                                                         *)
(*                                                                         *)
(* Python values are tagged records [t |-> tag, v |-> payload]:            *)
(*   null, bool, int, str (payload: sequence of one-character strings),    *)
(*   list (payload: sequence of values), obj (payload: function from keys  *)
(*   to values, a dict), error (payload: the exception class raised).      *)
(***************************************************************************)
EXTENDS Integers, Sequences, FiniteSets, TLC

VARIABLES
    pc,        \* pc[p]: position of invocation p inside main()
    data,      \* data[p]: local `data` (line 85)
    rows,      \* rows[p]: local `transformed_data` (line 95)
    resp,      \* resp[p]: the tuple returned by main (lines 158-170)
    log,       \* log[p]: the I/O calls made by the current run, with outcome
    body,      \* body[p]: the HTTP body the current run's fetch received
    blobJson,  \* gs://bucket/coursera_response.json
    blobCsv,   \* gs://bucket/coursera_courses.csv
    dataset,   \* whether the BigQuery dataset exists
    table,     \* the BigQuery table: Absent or [schema, rows]
    prev,      \* what the previous run left behind, recorded when a run starts
    ndoc,      \* transform-only and CSV-only specifications: the input given
    nres       \* transform-only and CSV-only specifications: the result

vars == <<pc, data, rows, resp, log, body, blobJson, blobCsv, dataset, table,
          prev, ndoc, nres>>

runVars == <<pc, data, rows, resp, log, body, blobJson, blobCsv, dataset,
             table, prev>>

----------------------------------------------------------------------------
(* Python values *)

Null == [t |-> "null", v |-> <<>>]

Str(s) == [t |-> "str", v |-> s]

Bool(b) == [t |-> "bool", v |-> b]

Num(i) == [t |-> "int", v |-> i]

List(l) == [t |-> "list", v |-> l]

Obj(f) == [t |-> "obj", v |-> f]

EmptyDict == Obj(<<>>)

Err(kind) == [t |-> "error", v |-> kind]

IsErr(x) == x.t = "error"

\* None of the model: a variable that holds no value yet.
Unset == [t |-> "unset", v |-> <<>>]

\* d[k] on a Python value: KeyError on a dict without the key, TypeError on
\* a value that is no dict. An exception already raised propagates.
Subscript(d, k) ==
    IF IsErr(d) THEN d
    ELSE IF d.t = "obj"
         THEN IF k \in DOMAIN d.v THEN d.v[k] ELSE Err("KeyError")
         ELSE Err("TypeError")

\* data[0]: the first element of a list (IndexError when it is empty).
First(d) ==
    IF IsErr(d) THEN d
    ELSE IF d.t = "list"
         THEN IF Len(d.v) >= 1 THEN d.v[1] ELSE Err("IndexError")
         ELSE IF d.t = "obj" THEN Err("KeyError") ELSE Err("TypeError")

\* d.get(k, default): AttributeError on a value that is no dict.
Get(d, k, default) ==
    IF IsErr(d) THEN d
    ELSE IF d.t = "obj"
         THEN IF k \in DOMAIN d.v THEN d.v[k] ELSE default
         ELSE Err("AttributeError")

\* Whether `for x in v` / join(v) can iterate v. Lists and strings iterate; a
\* dict iterates its keys, which the documents of this model never put where
\* the code iterates, so the model leaves dict iteration out.
Iterable(v) == v.t \in {"list", "str"}

Items(v) == IF v.t = "list" THEN v.v ELSE [i \in 1..Len(v.v) |-> Str(<<v.v[i]>>)]

RECURSIVE JoinSeq(_, _)
JoinSeq(sep, ss) ==
    IF Len(ss) = 0 THEN <<>>
    ELSE IF Len(ss) = 1 THEN ss[1]
    ELSE ss[1] \o sep \o JoinSeq(sep, Tail(ss))

CommaOnly == <<",">>

CommaSpace == <<",", " ">>

\* ", ".join(v): TypeError unless v iterates over strings only.
Join(v) ==
    IF IsErr(v) THEN v
    ELSE IF ~Iterable(v) THEN Err("TypeError")
    ELSE IF \E i \in 1..Len(Items(v)) : Items(v)[i].t # "str" THEN Err("TypeError")
    ELSE Str(JoinSeq(CommaSpace, [i \in 1..Len(Items(v)) |-> Items(v)[i].v]))

\* The first exception of a sequence of evaluated values, in evaluation order.
FirstErr(vals) ==
    vals[CHOOSE i \in 1..Len(vals) :
            IsErr(vals[i]) /\ \A j \in 1..(i - 1) : ~IsErr(vals[j])]

AnyErr(vals) == \E i \in 1..Len(vals) : IsErr(vals[i])

----------------------------------------------------------------------------
(* The fixed schema *)

SCHEMA ==
    << <<"collection_label", "STRING">>, <<"collection_id", "STRING">>,
       <<"course_name", "STRING">>, <<"course_id", "STRING">>,
       <<"slug", "STRING">>, <<"url", "STRING">>, <<"image_url", "STRING">>,
       <<"partners", "STRING">>, <<"partner_ids", "STRING">>,
       <<"difficulty_level", "STRING">>,
       <<"is_part_of_coursera_plus", "BOOLEAN">>,
       <<"course_count", "INTEGER">>, <<"is_cost_free", "BOOLEAN">>,
       <<"marketing_product_type", "STRING">>,
       <<"is_pathway_content", "BOOLEAN">> >>

CsvHeadersShort == [i \in 1..(Len(SCHEMA) - 1) |-> SCHEMA[i][1]]

\* CSV_HEADERS = [field.name for field in SCHEMA] (line 65)
CSV_HEADERS == [i \in 1..Len(SCHEMA) |-> SCHEMA[i][1]]

----------------------------------------------------------------------------
(* 3. Transform data (lines 94-125) *)

\* [partner["name"] for partner in entity["partners"]]
PartnerNames(entity) ==
    LET ps == Subscript(entity, "partners") IN
    IF IsErr(ps) THEN ps
    ELSE IF ~Iterable(ps) THEN Err("TypeError")
    ELSE LET names == [i \in 1..Len(Items(ps)) |-> Subscript(Items(ps)[i], "name")] IN
         IF AnyErr(names) THEN FirstErr(names) ELSE List(names)

RequiredFieldLenient(entity, key) == Get(entity, key, Null)

\* entity["name"], entity["id"], ...: a missing key raises KeyError.
RequiredField(entity, key) == Subscript(entity, key)

OptionalFieldStrict(entity, key) == Subscript(entity, key)

\* entity.get("difficultyLevel"), ...: a missing key gives None.
OptionalField(entity, key) == Get(entity, key, Null)

\* entity.get("productCard", {}).get("marketingProductType")
MarketingProductType(entity) ==
    Get(Get(entity, "productCard", EmptyDict), "marketingProductType", Null)

\* entity.get("productCard", {}).get("productTypeAttributes", {}).get("isPathwayContent")
IsPathwayContent(entity) ==
    Get(Get(Get(entity, "productCard", EmptyDict), "productTypeAttributes", EmptyDict),
        "isPathwayContent", Null)

\* The body of the inner loop: the row of one entity, or the exception raised
\* while building it. The tuple lists the values in evaluation order.
EntityRow(collection_label, collection_id, entity) ==
    LET partners == Join(PartnerNames(entity))
        partner_ids == Join(RequiredField(entity, "partnerIds"))
        row == [collection_label |-> collection_label,
                collection_id |-> collection_id,
                course_name |-> RequiredField(entity, "name"),
                course_id |-> RequiredField(entity, "id"),
                slug |-> RequiredField(entity, "slug"),
                url |-> RequiredField(entity, "url"),
                image_url |-> RequiredField(entity, "imageUrl"),
                partners |-> partners,
                partner_ids |-> partner_ids,
                difficulty_level |-> OptionalField(entity, "difficultyLevel"),
                is_part_of_coursera_plus |-> OptionalField(entity, "isPartOfCourseraPlus"),
                course_count |-> OptionalField(entity, "courseCount"),
                is_cost_free |-> OptionalField(entity, "isCostFree"),
                marketing_product_type |-> MarketingProductType(entity),
                is_pathway_content |-> IsPathwayContent(entity)]
        order == <<row.partners, row.partner_ids, row.course_name, row.course_id,
                   row.slug, row.url, row.image_url, row.difficulty_level,
                   row.is_part_of_coursera_plus, row.course_count,
                   row.is_cost_free, row.marketing_product_type,
                   row.is_pathway_content>>
    IN IF AnyErr(order) THEN FirstErr(order) ELSE Obj(row)

FirstEntityOnly(collection) ==
    LET ents == Subscript(collection, "entities") IN
    IF IsErr(ents) \/ ~Iterable(ents) THEN Err("TypeError")
    ELSE IF Len(Items(ents)) = 0 THEN List(<<>>)
    ELSE LET r == EntityRow(Subscript(collection, "label"),
                            Subscript(collection, "id"), Items(ents)[1])
         IN IF IsErr(r) THEN r ELSE List(<<r>>)

\* The body of the outer loop: the rows one collection appends, in order, or
\* the first exception raised.
CollectionRows(collection) ==
    LET collection_label == Subscript(collection, "label")
        collection_id == Subscript(collection, "id")
        ents == Subscript(collection, "entities")
    IN IF AnyErr(<<collection_label, collection_id, ents>>)
       THEN FirstErr(<<collection_label, collection_id, ents>>)
       ELSE IF ~Iterable(ents) THEN Err("TypeError")
       ELSE LET rs == [i \in 1..Len(Items(ents)) |->
                          EntityRow(collection_label, collection_id, Items(ents)[i])]
            IN IF AnyErr(rs) THEN FirstErr(rs) ELSE List(rs)

RECURSIVE Concat(_)
Concat(ls) == IF Len(ls) = 0 THEN <<>> ELSE ls[1].v \o Concat(Tail(ls))

\* data[0]["data"]["DiscoveryCollections"]["queryCollections"]
QueryCollections(d) ==
    Subscript(Subscript(Subscript(First(d), "data"), "DiscoveryCollections"),
              "queryCollections")

\* Lines 94-125 as a function of `data`: the list transformed_data, or the
\* exception that leaves the try block.
Normalize(d) ==
    LET collections == QueryCollections(d) IN
    IF IsErr(collections) THEN collections
    ELSE IF ~Iterable(collections) THEN Err("TypeError")
    ELSE LET per == [i \in 1..Len(Items(collections)) |->
                        CollectionRows(Items(collections)[i])]
         IN IF AnyErr(per) THEN FirstErr(per) ELSE List(Concat(per))

----------------------------------------------------------------------------
(* Documents the upstream API can answer with *)

MaxCollections == 2

MaxEntities == 2

SeqsUpTo(S, n) == UNION {[1..k -> S] : k \in 0..n}

\* The response shape the query of lines 24-43 asks for.
Document(collections) ==
    List(<<Obj([data |-> Obj([DiscoveryCollections |->
                Obj([queryCollections |-> List(collections)])])])>>)

Collection(label, id, entities) ==
    Obj([label |-> Str(label), id |-> Str(id), entities |-> List(entities)])

RequiredKeys == {"id", "name", "slug", "url", "imageUrl", "partnerIds"}

\* entity["partners"] is subscripted as well (line 101).
SubscriptedKeys == RequiredKeys \cup {"partners"}

OptionalScalarKeys == {"difficultyLevel", "isPartOfCourseraPlus", "courseCount", "isCostFree"}

FullProductCard ==
    Obj([marketingProductType |-> Str(<<"C">>),
         productTypeAttributes |-> Obj([isPathwayContent |-> Bool(TRUE)])])

\* A fully populated entity; c tells one entity from another.
FullEntity(c) ==
    [id |-> Str(<<c>>),
     name |-> Str(<<"N", c>>),
     slug |-> Str(<<"s", c>>),
     url |-> Str(<<"/", c>>),
     imageUrl |-> Str(<<"i", c>>),
     partnerIds |-> List(<<Str(<<"7">>), Str(<<"8">>)>>),
     partners |-> List(<<Obj([name |-> Str(<<"U">>)]), Obj([name |-> Str(<<"V">>)])>>),
     difficultyLevel |-> Str(<<"B">>),
     isPartOfCourseraPlus |-> Bool(TRUE),
     courseCount |-> Num(3),
     isCostFree |-> Bool(FALSE),
     productCard |-> FullProductCard]

Restrict(f, keys) == [k \in keys |-> f[k]]

Without(f, keys) == Restrict(f, DOMAIN f \ keys)

\* An entity with every optional key absent, no partners and no partner ids.
BareEntity(c) ==
    Obj([Restrict(FullEntity(c), SubscriptedKeys) EXCEPT
            !.partnerIds = List(<<>>), !.partners = List(<<>>),
            !.name = Str(<<"\"", ",", c>>)])

EntityTemplates == {Obj(FullEntity("1")), BareEntity("2")}

CollectionIds == {<<<<"L", "1">>, <<"c", "1">>>>, <<<<"L", "2">>, <<"c", "2">>>>}

TemplateCollections ==
    {Collection(ci[1], ci[2], es) :
        ci \in CollectionIds, es \in SeqsUpTo(EntityTemplates, MaxEntities)}

\* Documents of every shape within the bounds, built from the templates.
ShapeDocs == {Document(cs) : cs \in SeqsUpTo(TemplateCollections, MaxCollections)}

ProductCardVariants ==
    {Null, EmptyDict,
     Obj([marketingProductType |-> Str(<<"C">>)]),
     Obj([marketingProductType |-> Null]),
     Obj([productTypeAttributes |-> Null]),
     Obj([productTypeAttributes |-> EmptyDict]),
     Obj([productTypeAttributes |-> Obj([isPathwayContent |-> Bool(FALSE)])]),
     Obj([productTypeAttributes |-> Obj([isPathwayContent |-> Null])]),
     Obj([marketingProductType |-> Str(<<"C">>), productTypeAttributes |-> EmptyDict]),
     FullProductCard}

\* One entity with the keys `missing` absent, the optional scalars absent,
\* null or set as `opt` says, and productCard absent (card = Unset) or card.
EntityVariant(missing, opt, card) ==
    LET full == FullEntity("1")
        keys == (SubscriptedKeys \ missing)
                  \cup {k \in OptionalScalarKeys : opt[k] # "absent"}
                  \cup (IF card.t = "unset" THEN {} ELSE {"productCard"})
    IN Obj([k \in keys |->
              IF k = "productCard" THEN card
              ELSE IF k \in OptionalScalarKeys /\ opt[k] = "null" THEN Null
              ELSE full[k]])

AllSet == [k \in OptionalScalarKeys |-> "value"]

EntityVariants ==
    {EntityVariant(m, o, c) :
        m \in {x \in SUBSET SubscriptedKeys : Cardinality(x) <= 1},
        o \in [OptionalScalarKeys -> {"absent", "null", "value"}],
        c \in ProductCardVariants \cup {Unset}}
    \cup {EntityVariant(m, AllSet, FullProductCard) : m \in SUBSET SubscriptedKeys}

\* One collection holding a well-formed entity followed by a variant.
VariantDocs ==
    {Document(<<Collection(<<"L", "1">>, <<"c", "1">>, <<BareEntity("2"), e>>)>>) :
        e \in EntityVariants}

\* Answers with status 200 that do not hold the queried path: a GraphQL
\* error envelope, an empty array, a null collection list.
MalformedDocs ==
    {List(<<Obj([errors |-> List(<<Str(<<"x">>)>>)])>>),
     List(<<>>),
     List(<<Obj([data |-> Obj([DiscoveryCollections |->
                Obj([queryCollections |-> Null])])])>>),
     Document(<<Obj([label |-> Str(<<"L">>), id |-> Str(<<"c">>)])>>)}

MaxPartners == 2

PartnerNamePool == {<<"U">>, <<"V", "W">>}

PartnerIdPool == {<<"7">>, <<"8", "9">>}

\* One entity whose partners and partnerIds run over every sequence within
\* the bound: empty, repeated, in either order, of unequal lengths.
PartnerDocs ==
    {Document(<<Collection(<<"L", "1">>, <<"c", "1">>,
        <<Obj([FullEntity("1") EXCEPT
                 !.partners = List([i \in 1..Len(ns) |-> Obj([name |-> Str(ns[i])])]),
                 !.partnerIds = List([i \in 1..Len(ids) |-> Str(ids[i])])])>>)>>) :
        ns \in SeqsUpTo(PartnerNamePool, MaxPartners),
        ids \in SeqsUpTo(PartnerIdPool, MaxPartners)}

NormDocs == ShapeDocs \cup VariantDocs \cup MalformedDocs \cup PartnerDocs

MaxChars == 2

\* The characters the CSV dialect treats specially, and one it does not.
CsvChars == {"a", ",", "\"", "\r", "\n"}

CsvStrings == SeqsUpTo(CsvChars, MaxChars)

\* Documents whose strings hold delimiters, quotes and line breaks: s is the
\* label (first column) and, as a string where a boolean is expected, the
\* last column of the first row; t is a name in the middle of the second row.
CsvDocs ==
    {Document(<<Collection(s, <<"c", "1">>,
        <<Obj([FullEntity("1") EXCEPT !.productCard =
                  Obj([productTypeAttributes |-> Obj([isPathwayContent |-> Str(s)])])]),
          Obj([BareEntity("2").v EXCEPT !.name = Str(t)])>>)>>) :
        s \in CsvStrings, t \in CsvStrings}
    \cup {Document(<<>>)}

----------------------------------------------------------------------------
(* Initial state *)

Procs == {1, 2}

Absent == [t |-> "absent", v |-> <<>>]

NoResponse == [code |-> 0, status |-> "", message |-> ""]

InitRun ==
    /\ pc = [p \in Procs |-> "idle"]
    /\ data = [p \in Procs |-> Unset]
    /\ rows = [p \in Procs |-> Unset]
    /\ resp = [p \in Procs |-> NoResponse]
    /\ log = [p \in Procs |-> <<>>]
    /\ body = [p \in Procs |-> Unset]
    /\ blobJson = Absent
    /\ blobCsv = Absent
    /\ dataset = FALSE
    /\ table = Absent
    /\ prev = Unset

----------------------------------------------------------------------------
(* Texts: HTTP bodies, files and blobs *)

\* A text is a sequence of items. A JSON text holds one item, the value with
\* the whitespace style it is written in; a CSV text holds its characters.
Text(items) == [t |-> "text", v |-> items]

JsonText(style, value) == Text(<<[style |-> style, value |-> value]>>)

NotJson == Text(<<[style |-> "html", value |-> Null]>>)

\* response.json() (line 85): the value of a JSON body, or the decode error.
JsonLoads(text) ==
    IF Len(text.v) = 1 /\ text.v[1].style \in {"compact", "spaced"}
    THEN text.v[1].value
    ELSE Err("JSONDecodeError")

\* json.dump(data, json_file) (line 90) writes with the default separators
\* ", " and ": ", whatever the whitespace of the body that was parsed.
JsonDumps(value) == JsonText("spaced", value)

Digits == <<"0", "1", "2", "3", "4", "5", "6", "7", "8", "9">>

RECURSIVE Decimal(_)
Decimal(n) ==
    IF n < 0 THEN <<"-">> \o Decimal(0 - n)
    ELSE IF n < 10 THEN <<Digits[n + 1]>>
    ELSE Decimal(n \div 10) \o <<Digits[(n % 10) + 1]>>

\* What the csv writer makes of a value: None is the empty field, a string
\* is itself, everything else is str(value). Lists and dicts never reach a
\* row of the documents modelled; their repr is one opaque item.
CellText(x) ==
    CASE x.t = "null" -> <<>>
      [] x.t = "str" -> x.v
      [] x.t = "bool" -> IF x.v THEN <<"T", "r", "u", "e">> ELSE <<"F", "a", "l", "s", "e">>
      [] x.t = "int" -> Decimal(x.v)
      [] OTHER -> <<"<repr>">>

RECURSIVE DoubleQuotes(_)
DoubleQuotes(cs) ==
    IF Len(cs) = 0 THEN <<>>
    ELSE (IF cs[1] = "\"" THEN <<"\"", "\"">> ELSE <<cs[1]>>) \o DoubleQuotes(Tail(cs))

CsvFieldBare(cs) == cs

\* QUOTE_MINIMAL: a field holding the delimiter, the quote character or a
\* line break is written in quotes, its quotes doubled.
CsvField(cs) ==
    IF \E i \in 1..Len(cs) : cs[i] \in {",", "\"", "\r", "\n"}
    THEN <<"\"">> \o DoubleQuotes(cs) \o <<"\"">>
    ELSE cs

\* lineterminator of the default dialect: carriage return, line feed.
CsvLine(fields) ==
    JoinSeq(<<",">>, [i \in 1..Len(fields) |-> CsvField(fields[i])]) \o <<"\r", "\n">>

RECURSIVE CsvLines(_)
CsvLines(rs) ==
    IF Len(rs) = 0 THEN <<>>
    ELSE CsvLine([i \in 1..Len(CSV_HEADERS) |->
                     IF CSV_HEADERS[i] \in DOMAIN rs[1].v
                     THEN CellText(rs[1].v[CSV_HEADERS[i]]) ELSE <<>>])
         \o CsvLines(Tail(rs))

\* writer.writeheader(); writer.writerows(transformed_data) (lines 130-132).
\* A header name is one item of the text. DictWriter raises ValueError on a
\* row with a key that is no field name.
CsvDump(rs) ==
    IF \E i \in 1..Len(rs) : ~(DOMAIN rs[i].v \subseteq {CSV_HEADERS[k] : k \in 1..Len(CSV_HEADERS)})
    THEN Err("ValueError")
    ELSE Text(CsvLine([i \in 1..Len(CSV_HEADERS) |-> <<CSV_HEADERS[i]>>]) \o CsvLines(rs))

\* Reading the text back with csv.reader in the dialect it was written in
\* (the default, from a file opened with newline=""). The reader is a state
\* machine over the items of the text: inside quotes every item belongs to
\* the field and a doubled quote is one quote; outside, a comma ends the
\* field and a line break ends the record; a quote in a field that did not
\* start with one is an item like any other.
LineBreaks == {"\r", "\n"}

AfterBreak(c) == IF c = "\r" THEN "after_cr" ELSE "start_record"

\* At the start of a record a line break is a blank line, anything else
\* starts a field; the line feed after a carriage return is dropped.
ReaderState(st, c) ==
    IF st = "after_cr" /\ c = "\n" THEN "after_cr"
    ELSE IF st \in {"start_record", "after_cr"}
    THEN IF c \in LineBreaks THEN "start_record" ELSE "start_field"
    ELSE st

\* The state after reading item c in state st.
ReaderStep(st, c) ==
    LET e == ReaderState(st, c) IN
    CASE e = "after_cr" -> "start_record"
      [] e = "start_record" -> AfterBreak(c)
      [] e = "start_field" ->
            IF c \in LineBreaks THEN AfterBreak(c)
            ELSE IF c = "\"" THEN "in_quoted"
            ELSE IF c = "," THEN "start_field" ELSE "in_field"
      [] e = "in_field" ->
            IF c \in LineBreaks THEN AfterBreak(c)
            ELSE IF c = "," THEN "start_field" ELSE "in_field"
      [] e = "in_quoted" -> IF c = "\"" THEN "quote_in_quoted" ELSE "in_quoted"
      [] e = "quote_in_quoted" ->
            IF c = "\"" THEN "in_quoted"
            ELSE IF c = "," THEN "start_field"
            ELSE IF c \in LineBreaks THEN AfterBreak(c) ELSE "in_field"

\* What reading item c in state st does with it: it joins the field
\* ("content"), ends the field ("sep"), ends the record ("end"), is a blank
\* line ("blank"), or is dropped ("skip": the quotes around a field, the line
\* feed after a carriage return).
ReaderKind(st, c) ==
    LET e == ReaderState(st, c) IN
    CASE e = "after_cr" -> "skip"
      [] e = "start_record" -> "blank"
      [] e = "start_field" ->
            IF c \in LineBreaks THEN "end"
            ELSE IF c = "\"" THEN "skip"
            ELSE IF c = "," THEN "sep" ELSE "content"
      [] e = "in_field" ->
            IF c \in LineBreaks THEN "end" ELSE IF c = "," THEN "sep" ELSE "content"
      [] e = "in_quoted" -> IF c = "\"" THEN "skip" ELSE "content"
      [] e = "quote_in_quoted" ->
            IF c = "," THEN "sep" ELSE IF c \in LineBreaks THEN "end" ELSE "content"

\* The reader's state before each of the items lo..hi, given its state
\* before item lo.
RECURSIVE ReaderStates(_, _, _, _)
ReaderStates(cs, lo, hi, st) ==
    IF lo > hi THEN <<>>
    ELSE IF lo = hi THEN <<st>>
    ELSE LET mid == (lo + hi) \div 2
             left == ReaderStates(cs, lo, mid, st)
         IN left \o ReaderStates(cs, mid + 1, hi, ReaderStep(left[Len(left)], cs[mid]))

\* The records csv.reader yields for the text, each a sequence of fields.
CsvLoads(text) ==
    LET cs == text.v
        n == Len(cs)
        sts == ReaderStates(cs, 1, n, "start_record")
        kind == [i \in 1..n |-> ReaderKind(sts[i], cs[i])]
        final == IF n = 0 THEN "start_record" ELSE ReaderStep(sts[n], cs[n])
        idx == [i \in 1..n |-> i]
        IsEnd(i) == kind[i] \in {"end", "blank"}
        IsSep(i) == kind[i] = "sep"
        IsContent(i) == kind[i] = "content"
        ends == SelectSeq(idx, IsEnd)
                  \o (IF final \in {"start_record", "after_cr"} THEN <<>> ELSE <<n + 1>>)
        Field(lo, hi) ==
            LET at == SelectSeq(SubSeq(idx, lo, hi), IsContent)
            IN [j \in 1..Len(at) |-> cs[at[j]]]
        Record(k) ==
            LET lo == IF k = 1 THEN 1 ELSE ends[k - 1] + 1
                hi == ends[k] - 1
                cuts == <<lo - 1>> \o SelectSeq(SubSeq(idx, lo, hi), IsSep) \o <<hi + 1>>
            IN IF ends[k] <= n /\ kind[ends[k]] = "blank" THEN <<>>
               ELSE [f \in 1..(Len(cuts) - 1) |-> Field(cuts[f] + 1, cuts[f + 1] - 1)]
    IN [k \in 1..Len(ends) |-> Record(k)]

----------------------------------------------------------------------------
(* The answers of the upstream API that the runs are given *)

Label1 == <<"L", "1">>

Cid1 == <<"c", "1">>

DocTwoRows == Document(<<Collection(Label1, Cid1, <<Obj(FullEntity("1")), BareEntity("2")>>)>>)

DocOneRow == Document(<<Collection(<<"L", "2">>, <<"c", "2">>, <<Obj(FullEntity("3"))>>)>>)

DocNoRows == Document(<<>>)

DocMissing(key) ==
    Document(<<Collection(Label1, Cid1, <<Obj(FullEntity("1")), Obj(Without(FullEntity("2"), {key}))>>)>>)

DocErrors == List(<<Obj([errors |-> List(<<Str(<<"x">>)>>)])>>)

RunDocs ==
    {DocTwoRows, DocOneRow, DocNoRows, DocErrors} \cup {DocMissing(k) : k \in RequiredKeys}

\* requests.post returns a response: a status code and a body.
Responses ==
    {[status |-> 200, body |-> JsonText(st, d)] : st \in {"compact", "spaced"}, d \in RunDocs}
    \cup {[status |-> 200, body |-> NotJson]}
    \cup {[status |-> 403, body |-> NotJson],
          [status |-> 500, body |-> JsonText("compact", DocErrors)]}

StatusAny(status) == TRUE

\* if response.status_code != 200: raise (lines 83-84)
StatusOk(status) == status = 200

----------------------------------------------------------------------------
(* The stores: blobs, dataset, table *)

BlobAfterUploadAppend(old, content) ==
    IF old = Absent THEN content ELSE Text(old.v \o content.v)

\* blob.upload_from_filename(source_file_name) (line 73): the blob is the file.
BlobAfterUpload(old, content) == content

NewTable == [t |-> "table", v |-> [schema |-> SCHEMA, rows |-> <<>>]]

CreateTableExistsOk(tbl) == FALSE

\* bq_client.create_table(table) (line 152) raises Conflict on a table that
\* exists (exists_ok is left at False).
CreateTableConflict(tbl) == tbl # Absent

\* bq_client.create_dataset(dataset_ref) (line 143) raises Conflict on a
\* dataset that exists (exists_ok is left at False).
CreateDatasetConflict(exists) == exists

InsertErrorsIgnored(errors) == FALSE

\* if errors: raise Exception(...) (lines 155-156)
InsertErrorsRaise(errors) == errors # {}

RECURSIVE PickFrom(_, _, _)
PickFrom(s, I, i) ==
    IF i > Len(s) THEN <<>>
    ELSE (IF i \in I THEN <<s[i]>> ELSE <<>>) \o PickFrom(s, I, i + 1)

\* The rows of s at the positions I, in order.
Pick(s, I) == PickFrom(s, I, 1)

----------------------------------------------------------------------------
(* main(request), lines 78-170 *)

Logged(p, call, outcome) == [log EXCEPT ![p] = Append(@, <<call, outcome>>)]

\* The except block (lines 164-170): every exception ends the run with 500.
Raise(p, message) ==
    /\ pc' = [pc EXCEPT ![p] = "done"]
    /\ resp' = [resp EXCEPT ![p] = [code |-> 500, status |-> "error", message |-> message]]

Goto(p, label) ==
    /\ pc' = [pc EXCEPT ![p] = label]
    /\ UNCHANGED resp

\* A request arrives: main starts with fresh locals.
Start(p) ==
    /\ pc[p] \in {"idle", "done"}
    /\ \A q \in Procs : pc[q] \in {"idle", "done"}
    /\ pc' = [pc EXCEPT ![p] = "fetch"]
    /\ data' = [data EXCEPT ![p] = Unset]
    /\ rows' = [rows EXCEPT ![p] = Unset]
    /\ body' = [body EXCEPT ![p] = Unset]
    /\ resp' = [resp EXCEPT ![p] = NoResponse]
    /\ log' = [log EXCEPT ![p] = <<>>]
    /\ prev' = [t |-> IF resp[p].code = 200 THEN "run" ELSE "start",
                v |-> [data |-> IF resp[p].code = 200 THEN data[p] ELSE Unset,
                       dataset |-> dataset, table |-> table,
                       blobJson |-> blobJson, blobCsv |-> blobCsv]]
    /\ UNCHANGED <<blobJson, blobCsv, dataset, table, ndoc, nres>>

\* 1. Extract (lines 82-85): the post raises, or answers with a status that
\* is not 200, or with a body that is no JSON, or with a document.
Fetch(p) ==
    /\ pc[p] = "fetch"
    /\ \/ /\ Raise(p, "ConnectionError")
          /\ log' = Logged(p, "post", "raised")
          /\ UNCHANGED <<data, body>>
       \/ \E r \in Responses :
             /\ body' = [body EXCEPT ![p] = r.body]
             /\ IF ~StatusOk(r.status)
                THEN /\ Raise(p, <<"API request failed", r.status>>)
                     /\ log' = Logged(p, "post", "status")
                     /\ UNCHANGED data
                ELSE IF IsErr(JsonLoads(r.body))
                THEN /\ Raise(p, "JSONDecodeError")
                     /\ log' = Logged(p, "post", "not_json")
                     /\ UNCHANGED data
                ELSE /\ Goto(p, "save_json")
                     /\ log' = Logged(p, "post", IF r.status = 200 THEN "ok" ELSE "status")
                     /\ data' = [data EXCEPT ![p] = JsonLoads(r.body)]
    /\ UNCHANGED <<rows, blobJson, blobCsv, dataset, table, prev, ndoc, nres>>

\* 2. Save raw JSON to GCS (lines 88-91): json.dump(data) goes to the local
\* file, which is uploaded at once. A raised upload may or may not have
\* replaced the blob.
SaveJson(p) ==
    /\ pc[p] = "save_json"
    /\ \/ /\ Goto(p, "transform")
          /\ log' = Logged(p, "upload_json", "ok")
          /\ blobJson' = BlobAfterUpload(blobJson, JsonDumps(data[p]))
       \/ /\ Raise(p, "GoogleCloudError")
          /\ log' = Logged(p, "upload_json", "raised")
          /\ blobJson' \in {blobJson, BlobAfterUpload(blobJson, JsonDumps(data[p]))}
    /\ UNCHANGED <<data, rows, body, blobCsv, dataset, table, prev, ndoc, nres>>

\* The transform followed at once by the load, the CSV never written.
TransformThenLoad(p) ==
    /\ pc[p] = "transform"
    /\ IF IsErr(Normalize(data[p]))
       THEN /\ Raise(p, Normalize(data[p]).v)
            /\ log' = Logged(p, "normalize", "raised")
            /\ UNCHANGED rows
       ELSE /\ Goto(p, "get_dataset")
            /\ log' = Logged(p, "normalize", "ok")
            /\ rows' = [rows EXCEPT ![p] = Normalize(data[p])]
    /\ UNCHANGED <<data, body, blobJson, blobCsv, dataset, table, prev, ndoc, nres>>

\* 3. Transform (lines 94-125): transformed_data, or the exception raised.
Transform(p) ==
    /\ pc[p] = "transform"
    /\ IF IsErr(Normalize(data[p]))
       THEN /\ Raise(p, Normalize(data[p]).v)
            /\ log' = Logged(p, "normalize", "raised")
            /\ UNCHANGED rows
       ELSE /\ Goto(p, "save_csv")
            /\ log' = Logged(p, "normalize", "ok")
            /\ rows' = [rows EXCEPT ![p] = Normalize(data[p])]
    /\ UNCHANGED <<data, body, blobJson, blobCsv, dataset, table, prev, ndoc, nres>>

\* 4. Save the rows as CSV and upload (lines 128-133): the writer fills the
\* local file, which is uploaded at once.
SaveCsv(p) ==
    /\ pc[p] = "save_csv"
    /\ IF IsErr(CsvDump(rows[p].v))
       THEN /\ Raise(p, "ValueError")
            /\ log' = Logged(p, "write_csv", "raised")
            /\ UNCHANGED blobCsv
       ELSE \/ /\ Goto(p, "get_dataset")
               /\ log' = Logged(p, "upload_csv", "ok")
               /\ blobCsv' = BlobAfterUpload(blobCsv, CsvDump(rows[p].v))
            \/ /\ Raise(p, "GoogleCloudError")
               /\ log' = Logged(p, "upload_csv", "raised")
               /\ blobCsv' \in {blobCsv, BlobAfterUpload(blobCsv, CsvDump(rows[p].v))}
    /\ UNCHANGED <<data, rows, body, blobJson, dataset, table, prev, ndoc, nres>>

\* bq_client.get_dataset(dataset_ref) inside try/except (lines 140-143): it
\* returns when the dataset exists; it raises NotFound when it does not, and
\* may raise for any other reason. The bare except goes on to create_dataset.
GetDataset(p) ==
    /\ pc[p] = "get_dataset"
    /\ \/ /\ dataset
          /\ Goto(p, "delete_table")
          /\ log' = Logged(p, "get_dataset", "ok")
       \/ /\ ~dataset
          /\ Goto(p, "create_dataset")
          /\ log' = Logged(p, "get_dataset", "not_found")
       \/ /\ Goto(p, "create_dataset")
          /\ log' = Logged(p, "get_dataset", "raised")
    /\ UNCHANGED <<data, rows, body, blobJson, blobCsv, dataset, table, prev, ndoc, nres>>

\* bq_client.create_dataset(dataset_ref) (line 143), outside any inner try.
CreateDataset(p) ==
    /\ pc[p] = "create_dataset"
    /\ IF CreateDatasetConflict(dataset)
       THEN /\ Raise(p, "Conflict")
            /\ log' = Logged(p, "create_dataset", "conflict")
            /\ UNCHANGED dataset
       ELSE \/ /\ Goto(p, "delete_table")
               /\ log' = Logged(p, "create_dataset", "ok")
               /\ dataset' = TRUE
            \/ /\ Raise(p, "GoogleCloudError")
               /\ log' = Logged(p, "create_dataset", "raised")
               /\ dataset' \in {dataset, TRUE}
    /\ UNCHANGED <<data, rows, body, blobJson, blobCsv, table, prev, ndoc, nres>>

\* delete_table without the inner try: a failure reaches the except block.
DeleteTablePropagates(p) ==
    /\ pc[p] = "delete_table"
    /\ \/ /\ table # Absent /\ dataset
          /\ Goto(p, "create_table")
          /\ log' = Logged(p, "delete_table", "ok")
          /\ table' = Absent
       \/ /\ table = Absent
          /\ Raise(p, "NotFound")
          /\ log' = Logged(p, "delete_table", "not_found")
          /\ UNCHANGED table
       \/ /\ Raise(p, "GoogleCloudError")
          /\ log' = Logged(p, "delete_table", "raised")
          /\ table' \in {table, Absent}
    /\ UNCHANGED <<data, rows, body, blobJson, blobCsv, dataset, prev, ndoc, nres>>

\* bq_client.delete_table(table_ref) inside try/except: pass (lines 147-150).
DeleteTable(p) ==
    /\ pc[p] = "delete_table"
    /\ Goto(p, "create_table")
    /\ \/ /\ table # Absent /\ dataset
          /\ log' = Logged(p, "delete_table", "ok")
          /\ table' = Absent
       \/ /\ table = Absent
          /\ log' = Logged(p, "delete_table", "not_found")
          /\ UNCHANGED table
       \/ /\ log' = Logged(p, "delete_table", "raised")
          /\ table' \in {table, Absent}
    /\ UNCHANGED <<data, rows, body, blobJson, blobCsv, dataset, prev, ndoc, nres>>

\* bq_client.create_table(table) (lines 151-152).
CreateTable(p) ==
    /\ pc[p] = "create_table"
    /\ IF ~dataset
       THEN /\ Raise(p, "NotFound")
            /\ log' = Logged(p, "create_table", "not_found")
            /\ UNCHANGED table
       ELSE IF CreateTableConflict(table)
       THEN /\ Raise(p, "Conflict")
            /\ log' = Logged(p, "create_table", "conflict")
            /\ UNCHANGED table
       ELSE \/ /\ Goto(p, "insert_rows")
               /\ log' = Logged(p, "create_table", "ok")
               /\ table' = IF table = Absent THEN NewTable ELSE table
            \/ /\ Raise(p, "GoogleCloudError")
               /\ log' = Logged(p, "create_table", "raised")
               /\ table' \in {table, IF table = Absent THEN NewTable ELSE table}
    /\ UNCHANGED <<data, rows, body, blobJson, blobCsv, dataset, prev, ndoc, nres>>

\* errors = bq_client.insert_rows_json(table, transformed_data); if errors:
\* raise (lines 154-162). The call appends the rows it accepts: all of them
\* when it reports no error, fewer than all when it reports row errors
\* (errors names the rows refused), any of them when the call itself raises.
InsertRows(p) ==
    /\ pc[p] = "insert_rows"
    /\ IF table = Absent
       THEN /\ Raise(p, "NotFound")
            /\ log' = Logged(p, "insert_rows_json", "not_found")
            /\ UNCHANGED table
       ELSE \/ \E errors \in SUBSET (1..Len(rows[p].v)) :
                 /\ table' = [table EXCEPT !.v.rows =
                                 @ \o Pick(rows[p].v, (1..Len(rows[p].v)) \ errors)]
                 /\ IF InsertErrorsRaise(errors)
                    THEN /\ Raise(p, <<"BigQuery insert errors", errors>>)
                         /\ log' = Logged(p, "insert_rows_json", "errors")
                    ELSE /\ pc' = [pc EXCEPT ![p] = "done"]
                         /\ resp' = [resp EXCEPT ![p] =
                                        [code |-> 200, status |-> "success", message |-> ""]]
                         /\ log' = Logged(p, "insert_rows_json",
                                          IF errors = {} THEN "ok" ELSE "errors")
            \/ \E accepted \in SUBSET (1..Len(rows[p].v)) :
                 /\ table' = [table EXCEPT !.v.rows = @ \o Pick(rows[p].v, accepted)]
                 /\ Raise(p, "GoogleCloudError")
                 /\ log' = Logged(p, "insert_rows_json", "raised")
    /\ UNCHANGED <<data, rows, body, blobJson, blobCsv, dataset, prev, ndoc, nres>>

Run(p) ==
    \/ Start(p) \/ Fetch(p) \/ SaveJson(p) \/ Transform(p) \/ SaveCsv(p)
    \/ GetDataset(p) \/ CreateDataset(p) \/ DeleteTable(p) \/ CreateTable(p)
    \/ InsertRows(p)

\* The runs of one worker: requests are served one after the other.
SeqProcs == {1}

Init == InitRun /\ ndoc = Unset /\ nres = Unset

Next == \E p \in SeqProcs : Run(p)

Spec == Init /\ [][Next]_vars

----------------------------------------------------------------------------
(* Two invocations with no coordination: main takes no lock, so a second
   request may enter while the first is between any two of its calls. Each
   invocation runs once, on a document of its own. *)

Active(q) == pc[q] \notin {"idle", "done"}

\* A request arrives whether or not the other invocation is active; prev
\* records the stores and whether the other invocation was active.
StartOverlapping(p) ==
    /\ pc[p] = "idle"
    /\ pc' = [pc EXCEPT ![p] = "fetch"]
    /\ data' = [data EXCEPT ![p] = Unset]
    /\ rows' = [rows EXCEPT ![p] = Unset]
    /\ body' = [body EXCEPT ![p] = Unset]
    /\ resp' = [resp EXCEPT ![p] = NoResponse]
    /\ log' = [log EXCEPT ![p] = <<>>]
    /\ prev' = [t |-> IF \E q \in Procs \ {p} : Active(q) THEN "overlap" ELSE "start",
                v |-> [data |-> Unset, dataset |-> dataset, table |-> table,
                       blobJson |-> blobJson, blobCsv |-> blobCsv]]
    /\ UNCHANGED <<blobJson, blobCsv, dataset, table, ndoc, nres>>

\* The body the API answers invocation p with.
OverlapBody(p) == JsonText("compact", IF p = 1 THEN DocTwoRows ELSE DocOneRow)

FetchOverlapping(p) == Fetch(p) /\ body'[p] \in {Unset, OverlapBody(p)}

RunOverlapping(p) ==
    \/ StartOverlapping(p) \/ FetchOverlapping(p) \/ SaveJson(p) \/ Transform(p)
    \/ SaveCsv(p) \/ GetDataset(p) \/ CreateDataset(p) \/ DeleteTable(p)
    \/ CreateTable(p) \/ InsertRows(p)

NextOverlap == \E p \in Procs : RunOverlapping(p)

SpecOverlap == Init /\ [][NextOverlap]_vars

----------------------------------------------------------------------------
(* Transform-only specification: lines 94-125 applied to one document *)

NormalizeDocument ==
    /\ nres = Unset
    /\ nres' = Normalize(ndoc)
    /\ UNCHANGED <<ndoc, runVars>>

InitNorm == InitRun /\ ndoc \in NormDocs /\ nres = Unset

NextNorm == NormalizeDocument

SpecNorm == InitNorm /\ [][NextNorm]_vars

----------------------------------------------------------------------------
(* CSV-only specification: lines 128-132 applied to one sequence of rows.
   Here ndoc is the row sequence given and nres the text written. *)

CsvRowSeqs == {Normalize(d) : d \in CsvDocs}

WriteRows ==
    /\ nres = Unset
    /\ nres' = CsvDump(ndoc.v)
    /\ UNCHANGED <<ndoc, runVars>>

InitCsv == InitRun /\ ndoc \in CsvRowSeqs /\ nres = Unset

NextCsv == WriteRows

SpecCsv == InitCsv /\ [][NextCsv]_vars

----------------------------------------------------------------------------
(* What the data model of the specification calls a valid document *)

IsStr(x) == x.t = "str"

ValidEntity(e) ==
    /\ e.t = "obj"
    /\ SubscriptedKeys \subseteq DOMAIN e.v
    /\ e.v["partnerIds"].t = "list"
    /\ \A i \in 1..Len(e.v["partnerIds"].v) : IsStr(e.v["partnerIds"].v[i])
    /\ e.v["partners"].t = "list"
    /\ \A i \in 1..Len(e.v["partners"].v) :
          LET q == e.v["partners"].v[i] IN
          q.t = "obj" /\ "name" \in DOMAIN q.v /\ IsStr(q.v["name"])
    /\ "productCard" \in DOMAIN e.v =>
          /\ e.v["productCard"].t = "obj"
          /\ "productTypeAttributes" \in DOMAIN e.v["productCard"].v =>
                e.v["productCard"].v["productTypeAttributes"].t = "obj"

ValidCollection(c) ==
    /\ c.t = "obj"
    /\ {"label", "id", "entities"} \subseteq DOMAIN c.v
    /\ c.v["entities"].t = "list"
    /\ \A j \in 1..Len(c.v["entities"].v) : ValidEntity(c.v["entities"].v[j])

ValidDocument(d) ==
    /\ d.t = "list" /\ Len(d.v) >= 1
    /\ d.v[1].t = "obj" /\ "data" \in DOMAIN d.v[1].v
    /\ d.v[1].v["data"].t = "obj"
    /\ "DiscoveryCollections" \in DOMAIN d.v[1].v["data"].v
    /\ d.v[1].v["data"].v["DiscoveryCollections"].t = "obj"
    /\ "queryCollections" \in DOMAIN d.v[1].v["data"].v["DiscoveryCollections"].v
    /\ LET cs == d.v[1].v["data"].v["DiscoveryCollections"].v["queryCollections"] IN
       cs.t = "list" /\ \A i \in 1..Len(cs.v) : ValidCollection(cs.v[i])

\* The collections of a valid document, and the entities of its i-th one.
CollectionsOf(d) == d.v[1].v["data"].v["DiscoveryCollections"].v["queryCollections"].v

EntitiesOf(d, i) == CollectionsOf(d)[i].v["entities"].v

RECURSIVE EntitiesBefore(_, _)
EntitiesBefore(d, i) ==
    IF i <= 1 THEN 0 ELSE EntitiesBefore(d, i - 1) + Len(EntitiesOf(d, i - 1))

EntityCount(d) == EntitiesBefore(d, Len(CollectionsOf(d)) + 1)

----------------------------------------------------------------------------
(* Claims on the transform *)

\* C3: for every valid document the transform gives one row per (collection,
\* entity) pair: as many rows as the entity counts sum to, and the j-th
\* entity of the i-th collection gives the row at position
\* (entities of collections 1..i-1) + j, carrying that collection's label and
\* id and that entity's id and name. Nothing is sorted, nothing is dropped.
C3_OneRowPerPairInOrder ==
    (nres # Unset /\ ValidDocument(ndoc)) =>
        /\ nres.t = "list"
        /\ Len(nres.v) = EntityCount(ndoc)
        /\ \A i \in 1..Len(CollectionsOf(ndoc)) :
             \A j \in 1..Len(EntitiesOf(ndoc, i)) :
                LET r == nres.v[EntitiesBefore(ndoc, i) + j]
                    c == CollectionsOf(ndoc)[i].v
                    e == EntitiesOf(ndoc, i)[j].v
                IN /\ r.t = "obj"
                   /\ r.v.collection_label = c["label"]
                   /\ r.v.collection_id = c["id"]
                   /\ r.v.course_id = e["id"]
                   /\ r.v.course_name = e["name"]

\* C3 witness: a document of two collections, the first holding the same
\* entity twice, the second holding an entity that sorts before it, has been
\* transformed into three rows.
C3_Witness ==
    /\ nres.t = "list" /\ Len(nres.v) = 3
    /\ ValidDocument(ndoc)
    /\ Len(CollectionsOf(ndoc)) = 2
    /\ Len(EntitiesOf(ndoc, 1)) = 2
    /\ EntitiesOf(ndoc, 1)[1] = EntitiesOf(ndoc, 1)[2]
    /\ EntitiesOf(ndoc, 1)[1] = BareEntity("2")
    /\ EntitiesOf(ndoc, 2) = <<Obj(FullEntity("1"))>>
    /\ CollectionsOf(ndoc)[1].v["id"] # CollectionsOf(ndoc)[2].v["id"]

ColumnOf(key) ==
    CASE key = "difficultyLevel" -> "difficulty_level"
      [] key = "isPartOfCourseraPlus" -> "is_part_of_coursera_plus"
      [] key = "courseCount" -> "course_count"
      [] key = "isCostFree" -> "is_cost_free"

\* Whether the nested key path is broken by an absent key (never by a null).
CardMissing(e) == "productCard" \notin DOMAIN e

TypeMissing(e) ==
    CardMissing(e) \/ "marketingProductType" \notin DOMAIN e["productCard"].v

AttributesMissing(e) ==
    CardMissing(e) \/ "productTypeAttributes" \notin DOMAIN e["productCard"].v

PathwayMissing(e) ==
    \/ AttributesMissing(e)
    \/ "isPathwayContent" \notin DOMAIN e["productCard"].v["productTypeAttributes"].v

\* C4: in a valid document, whatever optional keys an entity lacks
\* (difficultyLevel, isPartOfCourseraPlus, courseCount, isCostFree,
\* productCard, productCard.marketingProductType,
\* productCard.productTypeAttributes or its isPathwayContent), the transform
\* succeeds, the entity still gives exactly one row at its position, and each
\* row field whose source key is missing is null.
C4_MissingOptionalIsNull ==
    (nres # Unset /\ ValidDocument(ndoc)) =>
        /\ nres.t = "list"
        /\ Len(nres.v) = EntityCount(ndoc)
        /\ \A i \in 1..Len(CollectionsOf(ndoc)) :
             \A j \in 1..Len(EntitiesOf(ndoc, i)) :
                LET r == nres.v[EntitiesBefore(ndoc, i) + j].v
                    e == EntitiesOf(ndoc, i)[j].v
                IN /\ r.course_id = e["id"]
                   /\ \A k \in OptionalScalarKeys :
                         k \notin DOMAIN e => r[ColumnOf(k)] = Null
                   /\ TypeMissing(e) => r.marketing_product_type = Null
                   /\ PathwayMissing(e) => r.is_pathway_content = Null

\* C4 witness: an entity that lacks courseCount and isCostFree and whose
\* productCard holds productTypeAttributes without isPathwayContent and no
\* marketingProductType has been transformed into a row.
C4_Witness ==
    /\ nres.t = "list" /\ Len(nres.v) = 2
    /\ ValidDocument(ndoc)
    /\ Len(CollectionsOf(ndoc)) = 1 /\ Len(EntitiesOf(ndoc, 1)) = 2
    /\ LET e == EntitiesOf(ndoc, 1)[2].v IN
         /\ "courseCount" \notin DOMAIN e /\ "isCostFree" \notin DOMAIN e
         /\ "difficultyLevel" \in DOMAIN e
         /\ ~AttributesMissing(e) /\ PathwayMissing(e) /\ TypeMissing(e)
    /\ nres.v[2].v.course_count = Null
    /\ nres.v[2].v.is_pathway_content = Null
    /\ nres.v[2].v.difficulty_level # Null

RECURSIVE SumLen(_, _)
SumLen(ss, n) == IF n = 0 THEN 0 ELSE Len(ss[n]) + SumLen(ss, n - 1)

\* s is the strings ss in their order, each but the last followed by a comma
\* and a space: stated position by position.
IsCommaSpaceJoined(s, ss) ==
    LET k == Len(ss)
        Off(i) == SumLen(ss, i - 1) + 2 * (i - 1)
    IN /\ Len(s) = IF k = 0 THEN 0 ELSE SumLen(ss, k) + 2 * (k - 1)
       /\ \A i \in 1..k :
             /\ \A c \in 1..Len(ss[i]) : s[Off(i) + c] = ss[i][c]
             /\ i < k => /\ s[Off(i) + Len(ss[i]) + 1] = ","
                         /\ s[Off(i) + Len(ss[i]) + 2] = " "

\* C16: for every entity of a valid document, the row's partners is a string:
\* the names of entity.partners in source order, duplicates kept, separated by
\* ", "; partner_ids is a string: entity.partnerIds joined the same way; an
\* empty source sequence gives the empty string, not null and not an error.
C16_PartnersJoinedInOrder ==
    (nres # Unset /\ ValidDocument(ndoc)) =>
        /\ nres.t = "list"
        /\ Len(nres.v) = EntityCount(ndoc)
        /\ \A i \in 1..Len(CollectionsOf(ndoc)) :
             \A j \in 1..Len(EntitiesOf(ndoc, i)) :
                LET r == nres.v[EntitiesBefore(ndoc, i) + j].v
                    e == EntitiesOf(ndoc, i)[j].v
                    names == [n \in 1..Len(e["partners"].v) |-> e["partners"].v[n].v["name"].v]
                    ids == [n \in 1..Len(e["partnerIds"].v) |-> e["partnerIds"].v[n].v]
                IN /\ r.partners.t = "str"
                   /\ IsCommaSpaceJoined(r.partners.v, names)
                   /\ r.partner_ids.t = "str"
                   /\ IsCommaSpaceJoined(r.partner_ids.v, ids)
                   /\ names = <<>> => r.partners = Str(<<>>)
                   /\ ids = <<>> => r.partner_ids = Str(<<>>)

\* C16 witness: an entity with the same partner twice, after a partner that
\* sorts later, and no partner id, has been transformed.
C16_Witness ==
    /\ nres # Unset /\ ValidDocument(ndoc) /\ EntityCount(ndoc) = 1
    /\ EntitiesOf(ndoc, 1)[1].v["partners"] =
          List(<<Obj([name |-> Str(<<"V", "W">>)]), Obj([name |-> Str(<<"V", "W">>)])>>)
    /\ EntitiesOf(ndoc, 1)[1].v["partnerIds"] = List(<<>>)
    /\ nres.v[1].v.partners = Str(<<"V", "W", ",", " ", "V", "W">>)
    /\ nres.v[1].v.partner_ids = Str(<<>>)

SchemaNames == {SCHEMA[i][1] : i \in 1..Len(SCHEMA)}

\* C18: the schema has 15 fields of 15 different names; the CSV column list
\* is these names in schema order and the table is created with this schema;
\* every row the transform builds, whatever optional keys its entity lacks,
\* has exactly these names as its keys, and the CSV writer takes every such
\* row sequence without raising.
C18_RowsHaveExactlySchemaNames ==
    /\ Len(SCHEMA) = 15 /\ Cardinality(SchemaNames) = 15
    /\ Len(CSV_HEADERS) = Len(SCHEMA)
    /\ \A i \in 1..Len(SCHEMA) : CSV_HEADERS[i] = SCHEMA[i][1]
    /\ \A i \in 1..Len(NewTable.v.schema) : NewTable.v.schema[i][1] = CSV_HEADERS[i]
    /\ (nres # Unset /\ nres.t = "list") =>
          /\ \A i \in 1..Len(nres.v) :
                nres.v[i].t = "obj" /\ DOMAIN nres.v[i].v = SchemaNames
          /\ ~IsErr(CsvDump(nres.v))

\* C18 witness: a document holding an entity with every optional key absent
\* next to a fully populated one has been transformed and written as CSV.
C18_Witness ==
    /\ nres # Unset /\ nres.t = "list" /\ Len(nres.v) = 2
    /\ ValidDocument(ndoc) /\ Len(CollectionsOf(ndoc)) = 1
    /\ EntitiesOf(ndoc, 1) = <<BareEntity("2"), Obj(FullEntity("1"))>>
    /\ nres.v[1].v.is_pathway_content = Null
    /\ nres.v[2].v.is_pathway_content = Bool(TRUE)
    /\ CsvDump(nres.v).t = "text"

\* The text of a value in a CSV field: nothing for null, the string itself,
\* True or False, the decimal digits.
FieldTexts(row) == [k \in 1..Len(SCHEMA) |-> CellText(row.v[SCHEMA[k][1]])]

\* C17: reading the CSV text written for a row sequence gives the header
\* record, the schema's names in schema order, and then one record per row,
\* in the rows' order, of 15 fields, each field the text of the row's value
\* in that column; so as many rows come back as were written.
C17_CsvRoundTrip ==
    nres # Unset =>
        /\ nres.t = "text"
        /\ LET records == CsvLoads(nres) IN
           /\ Len(records) = Len(ndoc.v) + 1
           /\ records[1] = [k \in 1..Len(SCHEMA) |-> <<SCHEMA[k][1]>>]
           /\ \A i \in 1..Len(ndoc.v) : records[i + 1] = FieldTexts(ndoc.v[i])

\* C17 witness: two rows were written whose first and last columns hold a
\* quote followed by a line feed and whose course_name holds a comma and a
\* carriage return, next to null, boolean and integer values.
C17_Witness ==
    /\ nres # Unset /\ nres.t = "text" /\ Len(ndoc.v) = 2
    /\ ndoc.v[1].v.collection_label = Str(<<"\"", "\n">>)
    /\ ndoc.v[1].v.is_pathway_content = Str(<<"\"", "\n">>)
    /\ ndoc.v[1].v.course_count = Num(3)
    /\ ndoc.v[2].v.course_name = Str(<<",", "\r">>)
    /\ ndoc.v[2].v.difficulty_level = Null
    /\ Len(CsvLoads(nres)) = 3

----------------------------------------------------------------------------
(* Claims on the runs *)

Last(s) == s[Len(s)]

HasCall(l, call) == \E i \in 1..Len(l) : l[i][1] = call

Calls(l, call) == Cardinality({i \in 1..Len(l) : l[i][1] = call})

Returned(p) == pc[p] = "done"

Succeeded(p) == Returned(p) /\ resp[p].code = 200

Failed(p) == Returned(p) /\ resp[p].code = 500

\* C1: whenever a run returns 200, the table exists with the fixed schema and
\* holds exactly the rows that run produced, in order, whatever earlier runs
\* left behind.
C1_SuccessLeavesExactlyThisRunsRows ==
    \A p \in Procs :
        Succeeded(p) =>
            table = [t |-> "table", v |-> [schema |-> SCHEMA, rows |-> rows[p].v]]

\* C1 witness: a run returned 200 with two rows after an earlier successful
\* run of another document had left its own rows in the table, which this
\* run's delete_table removed.
C1_Witness ==
    /\ Succeeded(1) /\ Len(rows[1].v) = 2
    /\ prev.t = "run" /\ prev.v.data # data[1]
    /\ prev.v.table.v.rows # <<>>
    /\ <<"delete_table", "ok">> = log[1][Len(log[1]) - 2]

\* C2: a successful run that follows a successful run fed the same document
\* leaves the table, the JSON blob and the CSV blob exactly as that earlier
\* run left them.
C2_SecondRunChangesNothing ==
    \A p \in Procs :
        (Succeeded(p) /\ prev.t = "run" /\ prev.v.data = data[p]) =>
            /\ table = prev.v.table
            /\ blobJson = prev.v.blobJson
            /\ blobCsv = prev.v.blobCsv

\* C2 witness: two successful runs in a row on the same two-row document.
C2_Witness ==
    /\ Succeeded(1) /\ prev.t = "run" /\ prev.v.data = data[1]
    /\ Len(rows[1].v) = 2 /\ table.v.rows = rows[1].v

\* Whether some entity of the document lacks one of the keys in `keys`.
LacksKey(d, keys) ==
    LET cs == QueryCollections(d) IN
    /\ ~IsErr(cs) /\ cs.t = "list"
    /\ \E i \in 1..Len(cs.v) :
          \E j \in 1..Len(cs.v[i].v["entities"].v) :
             ~(keys \subseteq DOMAIN cs.v[i].v["entities"].v[j].v)

\* C5: a run whose document holds an entity without id, name, slug, url,
\* imageUrl or partnerIds never gets a row sequence: it never goes past the
\* transform, writes no CSV and touches neither dataset nor table, and it
\* returns the 500 response.
C5_MissingRequiredFailsRun ==
    \A p \in Procs :
        (data[p] # Unset /\ LacksKey(data[p], RequiredKeys)) =>
            /\ rows[p] = Unset
            /\ pc[p] \in {"save_json", "transform", "done"}
            /\ \A i \in 1..Len(log[p]) : log[p][i][1] \in {"post", "upload_json", "normalize"}
            /\ Returned(p) => (resp[p].code = 500 /\ resp[p].status = "error")

\* C5 witness: a run whose second entity has no slug (the first entity is
\* complete) failed in the transform with KeyError and returned 500.
C5_Witness ==
    /\ Failed(1) /\ data[1] = DocMissing("slug")
    /\ Last(log[1]) = <<"normalize", "raised">>
    /\ resp[1].message = "KeyError"
    /\ rows[1] = Unset

\* The steps whose failure the code lets pass: the dataset lookup (the bare
\* except creates the dataset) and the table delete.
Tolerated == {"get_dataset", "delete_table"}

AllStepsSucceeded(l) ==
    /\ \A c \in {"post", "upload_json", "normalize", "upload_csv", "create_table",
                 "insert_rows_json"} : <<c, "ok">> \in {l[i] : i \in 1..Len(l)}
    /\ \E c \in {"get_dataset", "create_dataset"} : <<c, "ok">> \in {l[i] : i \in 1..Len(l)}

\* C6: a run has a response exactly when it has returned, and only one of
\* two: 200/success exactly when fetch, both uploads, transform, dataset
\* ensure, table create and insert all succeeded, else 500/error. A step that
\* fails (other than the tolerated lookup and delete) is the last step of its
\* run.
C6_OneResponsePerRun ==
    \A p \in Procs :
        /\ Returned(p) <=> resp[p] # NoResponse
        /\ Returned(p) =>
              \/ /\ resp[p] = [code |-> 200, status |-> "success", message |-> ""]
                 /\ AllStepsSucceeded(log[p])
              \/ /\ resp[p].code = 500 /\ resp[p].status = "error"
                 /\ ~AllStepsSucceeded(log[p])
        /\ \A i \in 1..Len(log[p]) :
              (log[p][i][2] # "ok" /\ log[p][i][1] \notin Tolerated) =>
                  i = Len(log[p]) /\ Failed(p)
        /\ Len(log[p]) > 0 /\ Last(log[p])[2] = "ok" /\ Returned(p) =>
              Last(log[p])[1] = "insert_rows_json"

\* C6 witness: a run failed at the CSV upload, its fourth step, and returned
\* 500 without calling BigQuery.
C6_Witness ==
    /\ Failed(1) /\ Len(log[1]) = 4
    /\ Last(log[1]) = <<"upload_csv", "raised">>
    /\ log[1][3] = <<"normalize", "ok">>

\* s is t with at least one element left out.
IsPartOf(s, t) == \E I \in SUBSET (1..Len(t)) : I # 1..Len(t) /\ s = Pick(t, I)

\* C7: once insert_rows_json has reported row errors the run has returned
\* 500; the table exists with the fixed schema and holds none or some, never
\* all, of the run's rows; the insert was called once.
C7_RowErrorsFailRun ==
    \A p \in Procs :
        HasCall(log[p], "insert_rows_json") /\ Last(log[p])[2] = "errors" =>
            /\ Failed(p)
            /\ table.t = "table" /\ table.v.schema = SCHEMA
            /\ IsPartOf(table.v.rows, rows[p].v)
            /\ Calls(log[p], "insert_rows_json") = 1

\* C7 witness: the insert reported an error for one of two rows, the other
\* row is in the table, and the run returned 500.
C7_Witness ==
    /\ Failed(1) /\ Last(log[1]) = <<"insert_rows_json", "errors">>
    /\ Len(rows[1].v) = 2 /\ Len(table.v.rows) = 1
    /\ table.v.rows[1] = rows[1].v[2]

\* C8: the dataset-ensure step never fails a run because the dataset already
\* exists: no run ends on create_dataset raising Conflict. Stated for the run
\* that follows a successful run, whose dataset is there beyond doubt.
C8_ExistingDatasetNeverFailsRun ==
    \A p \in Procs :
        ~(/\ Failed(p) /\ dataset /\ prev.t = "run"
          /\ Last(log[p]) = <<"create_dataset", "conflict">>)

\* C9 as claimed: once a run has reached a publish step, the blob holds that
\* run's content (the JSON document of its response; the CSV of its rows).
C9_BlobHoldsLatestRunThatReachedPublish ==
    \A p \in Procs :
        /\ HasCall(log[p], "upload_json") =>
              blobJson # Absent /\ JsonLoads(blobJson) = JsonLoads(body[p])
        /\ HasCall(log[p], "upload_csv") => blobCsv = CsvDump(rows[p].v)

\* C9 as amended: a blob changes only in the publish step of a run, and then
\* to exactly that run's content (json.dump of its document; the CSV of its
\* rows): never an append. A publish that succeeds leaves exactly that
\* content; a publish that raises leaves that content or the blob as it was.
C9_PublishOverwrites ==
    [][\A p \in SeqProcs :
          /\ blobJson' # blobJson =>
                pc[p] = "save_json" /\ blobJson' = JsonDumps(data[p])
          /\ blobCsv' # blobCsv =>
                pc[p] = "save_csv" /\ blobCsv' = CsvDump(rows[p].v)
          /\ (pc[p] = "save_json" /\ pc'[p] = "transform") =>
                blobJson' = JsonDumps(data[p])
          /\ (pc[p] = "save_csv" /\ pc'[p] = "get_dataset") =>
                blobCsv' = CsvDump(rows[p].v)]_vars

\* C9 witness: both publishes of a run succeeded over the different content
\* an earlier successful run had left, and the blobs hold this run's content.
C9_Witness ==
    /\ pc[1] = "get_dataset" /\ prev.t = "run"
    /\ prev.v.blobJson # blobJson /\ prev.v.blobCsv # blobCsv
    /\ blobJson = JsonDumps(data[1]) /\ blobCsv = CsvDump(rows[1].v)
    /\ Len(rows[1].v) > 0 /\ prev.v.table.v.rows # <<>>

\* C10: a run that fails after delete_table was attempted and before the
\* insert is called leaves the table absent or without rows.
C10_FailedReplaceLeavesNoRows ==
    \A p \in Procs :
        (Failed(p) /\ HasCall(log[p], "delete_table")
                   /\ ~HasCall(log[p], "insert_rows_json")) =>
            (table = Absent \/ table.v.rows = <<>>)


\* C11: whatever delete_table does (deletes, finds no table, raises for any
\* other reason), the run goes on to create_table: every delete_table call of
\* a run is followed by its create_table call, or the run stands right
\* before it; no run ends on the delete.
C11_DeleteFailureNeverAborts ==
    \A p \in Procs :
        /\ \A i \in 1..Len(log[p]) :
              log[p][i][1] = "delete_table" =>
                  IF i = Len(log[p])
                  THEN pc[p] = "create_table" /\ resp[p] = NoResponse
                  ELSE log[p][i + 1][1] = "create_table"
        /\ pc[p] = "create_table" => Last(log[p])[1] = "delete_table"

\* C11 witness: the delete of a table an earlier run had loaded raised, the
\* run went on to create_table and insert, and returned 200.
C11_Witness ==
    /\ Succeeded(1) /\ prev.t = "run" /\ prev.v.table.v.rows # <<>>
    /\ log[1][Len(log[1]) - 2] = <<"delete_table", "raised">>
    /\ log[1][Len(log[1]) - 1] = <<"create_table", "ok">>


\* The place of each call in the text of main.
StepRank(call) ==
    CASE call = "post" -> 1
      [] call = "upload_json" -> 2
      [] call = "normalize" -> 3
      [] call = "write_csv" -> 4
      [] call = "upload_csv" -> 5
      [] call = "get_dataset" -> 6
      [] call = "create_dataset" -> 7
      [] call = "delete_table" -> 8
      [] call = "create_table" -> 9
      [] call = "insert_rows_json" -> 10

OkBefore(l, i, call) == \E j \in 1..(i - 1) : l[j] = <<call, "ok">>

CalledBefore(l, i, call) == \E j \in 1..(i - 1) : l[j][1] = call

TableCalls == {"delete_table", "create_table", "insert_rows_json"}

StoreCalls == {"get_dataset", "create_dataset"} \cup TableCalls

\* C12: the calls of a run follow the order of main: normalization starts
\* only after the raw blob was uploaded, the CSV blob is uploaded after
\* normalization and before any dataset or table call, and the store calls
\* come as dataset lookup (and create), delete, create, insert. So once the
\* run has called delete_table, create_table or insert_rows_json, the raw blob
\* is the dump of this run's document and the CSV blob is the CSV of this
\* run's rows.
C12_StepsInOrder ==
    \A p \in Procs :
        LET l == log[p] IN
        /\ \A i, j \in 1..Len(l) : i < j => StepRank(l[i][1]) < StepRank(l[j][1])
        /\ \A i \in 1..Len(l) :
              /\ l[i][1] = "normalize" => OkBefore(l, i, "upload_json")
              /\ l[i][1] = "upload_csv" => OkBefore(l, i, "normalize")
              /\ l[i][1] \in StoreCalls => OkBefore(l, i, "upload_csv")
              /\ l[i][1] = "delete_table" => CalledBefore(l, i, "get_dataset")
              /\ l[i][1] = "create_table" => CalledBefore(l, i, "delete_table")
              /\ l[i][1] = "insert_rows_json" => OkBefore(l, i, "create_table")
        /\ (\E c \in TableCalls : HasCall(l, c)) =>
              /\ blobJson = JsonDumps(data[p])
              /\ blobCsv = CsvDump(rows[p].v)

\* C12 witness: a second run, on a document other than the one of the run
\* before it, has reached the insert: both blobs were replaced on the way.
C12_Witness ==
    /\ HasCall(log[1], "insert_rows_json")
    /\ prev.t = "run" /\ prev.v.data # data[1]
    /\ prev.v.blobJson # blobJson /\ prev.v.blobCsv # blobCsv


InLog(l, entry) == \E i \in 1..Len(l) : l[i] = entry

\* C13: a run whose fetch answered with a status other than 200 leaves both
\* blobs, the dataset and the table as they were when it started; a run that
\* failed in the transform has replaced the raw blob by the dump of its
\* document and leaves the CSV blob, the dataset and the table as they were
\* when it started.
C13_EarlyFailureLeavesStores ==
    \A p \in Procs :
        /\ (Failed(p) /\ InLog(log[p], <<"post", "status">>)) =>
              /\ blobJson = prev.v.blobJson /\ blobCsv = prev.v.blobCsv
              /\ dataset = prev.v.dataset /\ table = prev.v.table
        /\ (Failed(p) /\ InLog(log[p], <<"normalize", "raised">>)) =>
              /\ blobJson = JsonDumps(data[p])
              /\ blobCsv = prev.v.blobCsv
              /\ dataset = prev.v.dataset /\ table = prev.v.table

\* C13 witness: after a run that returned 200, a run on another document
\* failed in the transform: the raw blob is new, the CSV blob and the loaded
\* table are the earlier run's.
C13_Witness ==
    /\ Failed(1) /\ InLog(log[1], <<"normalize", "raised">>)
    /\ prev.t = "run" /\ blobJson # prev.v.blobJson
    /\ blobCsv # Absent /\ table # Absent /\ table.v.rows # <<>>

\* The other case of C13: after a run that returned 200, a run whose fetch
\* answered with another status.
C13_WitnessFetch ==
    /\ Failed(1) /\ log[1] = <<<<"post", "status">>>>
    /\ prev.t = "run" /\ blobJson # Absent /\ table # Absent /\ table.v.rows # <<>>


IOCalls == {"post", "upload_json", "upload_csv", "get_dataset", "create_dataset",
            "delete_table", "create_table", "insert_rows_json"}

\* A call that did not do its work: it raised, or answered with an error. A
\* lookup answering that there is no dataset has done its work.
StepFailed(entry) ==
    /\ entry[1] \in IOCalls
    /\ entry[2] # "ok"
    /\ entry # <<"get_dataset", "not_found">>

\* C14: within a run each I/O call is made at most once, and a failed call
\* other than delete_table is the last call of its run.
C14_NoRetryFailureEndsRun ==
    \A p \in Procs :
        /\ \A c \in IOCalls : Calls(log[p], c) <= 1
        /\ \A i \in 1..Len(log[p]) :
              (StepFailed(log[p][i]) /\ log[p][i][1] # "delete_table") => i = Len(log[p])

\* What holds of C14: no call is made twice, and a failed call other than
\* the two inside a bare except (get_dataset, delete_table) ends the run.
C14_NoRetryButLookupAndDelete ==
    \A p \in Procs :
        /\ \A c \in IOCalls : Calls(log[p], c) <= 1
        /\ \A i \in 1..Len(log[p]) :
              (StepFailed(log[p][i]) /\ log[p][i][1] \notin Tolerated) =>
                  i = Len(log[p]) /\ Failed(p)


HoldsExactly(tbl, rs) == tbl = [t |-> "table", v |-> [schema |-> SCHEMA, rows |-> rs]]

\* C15: of two invocations, one that was never active together with the
\* other leaves, at the moment it returns 200, the table with exactly its own
\* rows; with the two active together this fails (C15_Witness).
C15_RunAloneLeavesItsRows ==
    [][\A p \in Procs :
          (pc[p] = "insert_rows" /\ pc'[p] = "done" /\ resp'[p].code = 200
           /\ prev.t # "overlap") => HoldsExactly(table', rows[p].v)]_vars

\* C15 witness: both invocations overlapped and both returned 200, each
\* having inserted all its rows, and the table holds the rows of both, which
\* are the rows of neither.
C15_Witness ==
    /\ Succeeded(1) /\ Succeeded(2) /\ prev.t = "overlap"
    /\ rows[1].v # <<>> /\ rows[2].v # <<>>
    /\ table # Absent
    /\ table.v.rows \in {rows[1].v \o rows[2].v, rows[2].v \o rows[1].v}

====
